---- MODULE Spec2Model ----
(***************************************************************************)
(* A model of puppeteer-recorder's CodeGenerator                           *)
(* (src/src/code-generator/CodeGenerator.js): the module-level `defaults`  *)
(* object, one CodeGenerator instance, and generate(events) stepped through*)
(* its loop iterations and post-processing passes.                         *)
(*                                                                         *)
(* Text is modelled as a sequence of string tokens; the concatenation of   *)
(* the tokens is the JavaScript string.  A "\n" token is a newline.        *)
(***************************************************************************)
EXTENDS Integers, Sequences, FiniteSets, TLC

VARIABLES
    defaults,       \* the exported module-level `defaults` object
    gen,            \* the fields of the current CodeGenerator instance
    pc,             \* position inside constructor / generate
    events,         \* the argument of the running generate call
    i,              \* loop index of _parseEvents (0-based, as in the code)
    k,              \* loop index of the running post-processing pass
    output,         \* the text returned by the last completed generate
    optsArg,        \* history: the options argument of the last constructor
    constructions,  \* history: number of constructor calls so far
    calls,          \* history: generate calls made on the current instance
    prevEvents,     \* history: argument of the previous completed generate
    prevOutput,     \* history: text of the previous completed generate
    content         \* the page of the content script: window, chrome, recorders

vars == <<defaults, gen, pc, events, i, k, output, optsArg, constructions,
          calls, prevEvents, prevOutput, content>>

----------------------------------------------------------------------------
(* Bounds of the model *)

MaxEvents == 2
MaxReuseEvents == 1
MaxConstructions == 3
MaxCalls == 2
MaxOptionEvents == 2
MaxRecorders == 2
MaxStarts == 3
MaxDomEvents == 3
MaxTimeStamp == 2

----------------------------------------------------------------------------
(* Event records.  A field the recorder did not send is absent from the    *)
(* record (JavaScript undefined).                                          *)

Has(e, f) == f \in DOMAIN e

\* `${x}` of a field: the text of the value, or "undefined"
Str(e, f) == IF Has(e, f) THEN e[f] ELSE "undefined"

\* events[i] is undefined (a hole in the list)
Missing == [missing |-> TRUE]

Events ==
    { [action |-> "click", selector |-> "#a"],
      [action |-> "click", selector |-> "#a", frameId |-> 0, frameUrl |-> "u0",
       comments |-> ""],
      [action |-> "click", selector |-> "#a", frameId |-> 1, frameUrl |-> "u1",
       comments |-> "c"],
      [action |-> "click", selector |-> "#b", frameId |-> 1, frameUrl |-> "u2"],
      [action |-> "change", selector |-> "#a", value |-> "v", tagName |-> "SELECT",
       frameId |-> 2, frameUrl |-> "u1", comments |-> "c"],
      [action |-> "change", selector |-> "#a", value |-> "v", tagName |-> "INPUT"],
      [action |-> "submit", selector |-> "#f", tagName |-> "FORM", comments |-> "c"],
      [action |-> "submit", selector |-> "#f", tagName |-> "DIV", comments |-> "c"],
      [action |-> "keydown", selector |-> "#a", value |-> "v", keyCode |-> 9],
      [action |-> "keydown", selector |-> "#a", value |-> "v", keyCode |-> 13,
       frameId |-> 2, frameUrl |-> "u2"],
      [action |-> "goto*", href |-> "h"],
      [action |-> "viewport*", value |-> [width |-> "800", height |-> "600"]],
      [action |-> "viewport*"],
      [action |-> "navigation*"],
      [action |-> "navigation*", frameId |-> 1, frameUrl |-> "u1", comments |-> "c"],
      [action |-> "mousemove", selector |-> "#a"],
      Missing }

EventSeqs == UNION { [1..n -> Events] : n \in 0..MaxEvents }

ReuseEvents ==
    { [action |-> "click", selector |-> "#a"],
      [action |-> "click", selector |-> "#a", frameId |-> 1, frameUrl |-> "u1"],
      [action |-> "navigation*"] }

OptionEvents ==
    { [action |-> "click", selector |-> "#a"],
      [action |-> "click", selector |-> "#b", frameId |-> 1, frameUrl |-> "u1",
       comments |-> "c"],
      [action |-> "change", selector |-> "#a", value |-> "v", tagName |-> "INPUT"],
      [action |-> "navigation*", frameId |-> 1, frameUrl |-> "u1"] }

OptionEventSeqs == UNION { [1..n -> OptionEvents] : n \in 0..MaxOptionEvents }

ReuseEventSeqs == UNION { [1..n -> ReuseEvents] : n \in 0..MaxReuseEvents }

----------------------------------------------------------------------------
(* Options *)

BuiltinDefaults ==
    [ wrapAsync               |-> TRUE,
      headless                |-> TRUE,
      waitForNavigation       |-> TRUE,
      waitForSelectorOnClick  |-> TRUE,
      blankLinesBetweenBlocks |-> TRUE,
      dataAttribute           |-> "",
      useRegexForDataAttribute |-> FALSE,
      customLineAfterClick    |-> "" ]

\* Object.assign(target, source): source's own keys overwrite target's
ObjectAssign(target, source) ==
    [f \in DOMAIN target \cup DOMAIN source |->
        IF f \in DOMAIN source THEN source[f] ELSE target[f]]

EmptyOptions == [f \in {} |-> TRUE]

OptionObjects ==
    { EmptyOptions,
      [waitForNavigation |-> FALSE],
      [blankLinesBetweenBlocks |-> FALSE],
      [waitForNavigation |-> FALSE, blankLinesBetweenBlocks |-> FALSE] }

\* every combination of the options that shape the text
TextOptionObjects ==
    [ {"wrapAsync", "headless", "blankLinesBetweenBlocks", "waitForSelectorOnClick"}
        -> BOOLEAN ]
    \cup
    { [wrapAsync |-> w, blankLinesBetweenBlocks |-> b, waitForSelectorOnClick |-> s,
       customLineAfterClick |-> "await page.waitFor(100)"] :
          w \in BOOLEAN, b \in BOOLEAN, s \in BOOLEAN }

ReuseOptionObjects ==
    { EmptyOptions,
      BuiltinDefaults,
      [wrapAsync |-> FALSE],
      [waitForNavigation |-> FALSE],
      [waitForSelectorOnClick |-> FALSE, customLineAfterClick |-> "x"] }

----------------------------------------------------------------------------
(* Block (./Block): an ordered list of lines with the frame id given at    *)
(* construction; every line added is stamped with the block's frame id.    *)
(* The field ev is a history field: the 1-based index of the event the     *)
(* block was generated from, 0 for a block that comes from no event.       *)
(* `new Block()` has an undefined frame id, which is falsy like 0.         *)

Stamp(frameId, line) == [type |-> line.type, value |-> line.value, frameId |-> frameId]

EmptyBlock(frameId) == [frameId |-> frameId, lines |-> <<>>, ev |-> 0]

NewBlock(frameId, line) ==
    [frameId |-> frameId, lines |-> <<Stamp(frameId, line)>>, ev |-> 0]

AddLine(block, line) ==
    [block EXCEPT !.lines = Append(@, Stamp(block.frameId, line))]

AddLineToTop(block, line) ==
    [block EXCEPT !.lines = <<Stamp(block.frameId, line)>> \o @]

----------------------------------------------------------------------------
(* CodeGenerator: pure operators over the instance fields g and the        *)
(* options object o (this._options, which is the `defaults` object itself: *)
(* Object.assign returns its target).                                      *)

NewGenerator ==
    [ blocks |-> <<>>, frame |-> "page", frameId |-> 0,
      allFrames |-> [f \in {} |-> ""], hasNavigation |-> FALSE ]

FrameVar(frameId) == "frame_" \o ToString(frameId)

\* a variant that keeps the frame of the earlier event for a top-level event
MutSetFramesSticky(g, e) ==
    IF Has(e, "frameId") /\ e.frameId # 0
    THEN [g EXCEPT !.frameId = e.frameId,
                   !.frame = FrameVar(e.frameId),
                   !.allFrames =
                       [f \in DOMAIN g.allFrames \cup {e.frameId} |->
                           IF f = e.frameId THEN Str(e, "frameUrl")
                           ELSE g.allFrames[f]]]
    ELSE g

\* _setFrames (frameId, frameUrl)
SetFrames(g, e) ==
    IF Has(e, "frameId") /\ e.frameId # 0
    THEN [g EXCEPT !.frameId = e.frameId,
                   !.frame = FrameVar(e.frameId),
                   !.allFrames =
                       [f \in DOMAIN g.allFrames \cup {e.frameId} |->
                           IF f = e.frameId THEN Str(e, "frameUrl")
                           ELSE g.allFrames[f]]]
    ELSE [g EXCEPT !.frameId = 0, !.frame = "page"]

\* _handleComments (block, comments)
HandleComments(block, e) ==
    IF Has(e, "comments") /\ e.comments # ""
    THEN AddLineToTop(block, [type |-> "undefined",
                              value |-> <<"/** ", e.comments, " */">>])
    ELSE block

HandleSubmit(g, e) ==
    NewBlock(g.frameId,
        [type |-> "change",
         value |-> <<"await ", g.frame, ".$eval('", Str(e, "selector"),
                     "', form => form.submit())">>])

HandleKeyDown(g, e) ==
    AddLine(EmptyBlock(g.frameId),
        [type |-> "keydown",
         value |-> <<"await ", g.frame, ".type('", Str(e, "selector"), "', '",
                     Str(e, "value"), "')">>])

\* a variant that waits for the selector after the click
MutHandleClickWaitAfter(g, o, e) ==
    LET b0 == EmptyBlock(g.frameId)
        b1 == AddLine(b0, [type |-> "click",
                           value |-> <<"await ", g.frame, ".click('",
                                       Str(e, "selector"), "')">>])
        b2 == IF o.waitForSelectorOnClick
              THEN AddLine(b1, [type |-> "click",
                                value |-> <<"await ", g.frame, ".waitForSelector('",
                                            Str(e, "selector"), "')">>])
              ELSE b1
    IN  IF o.customLineAfterClick # ""
        THEN AddLine(b2, [type |-> "click", value |-> <<o.customLineAfterClick>>])
        ELSE b2

HandleClick(g, o, e) ==
    LET b0 == EmptyBlock(g.frameId)
        b1 == IF o.waitForSelectorOnClick
              THEN AddLine(b0, [type |-> "click",
                                value |-> <<"await ", g.frame, ".waitForSelector('",
                                            Str(e, "selector"), "')">>])
              ELSE b0
        b2 == AddLine(b1, [type |-> "click",
                           value |-> <<"await ", g.frame, ".click('",
                                       Str(e, "selector"), "')">>])
    IN  IF o.customLineAfterClick # ""
        THEN AddLine(b2, [type |-> "click", value |-> <<o.customLineAfterClick>>])
        ELSE b2

HandleSelectChange(g, e) ==
    NewBlock(g.frameId,
        [type |-> "change",
         value |-> <<"await ", g.frame, ".select('", Str(e, "selector"), "', '",
                     Str(e, "value"), "')">>])

HandleChange(g, e) ==
    NewBlock(g.frameId,
        [type |-> "change",
         value |-> <<"await ", g.frame, ".type('", Str(e, "selector"), "', '",
                     Str(e, "value"), "')">>])

HandleGoto(g, e) ==
    NewBlock(g.frameId,
        [type |-> "goto*",
         value |-> <<"await ", g.frame, ".goto('", Str(e, "href"), "')">>])

\* the caller evaluates value.width and value.height; value is present here
HandleViewport(g, e) ==
    NewBlock(g.frameId,
        [type |-> "viewport*",
         value |-> <<"await ", g.frame, ".setViewport({ width: ", e.value.width,
                     ", height: ", e.value.height, " })">>])

HandleWaitForNavigation(g, o) ==
    IF o.waitForNavigation
    THEN AddLine(EmptyBlock(g.frameId),
                 [type |-> "navigation*", value |-> <<"await navigationPromise">>])
    ELSE EmptyBlock(g.frameId)

----------------------------------------------------------------------------
(* _parseEvents: one iteration of the loop over events.                    *)
(* The result is [threw, g]: threw is TRUE when the iteration raises a     *)
(* TypeError, which leaves generate without a return value.                *)

\* the switch on action: <<block>> for a new block, <<>> for null
Dispatch(g, o, e) ==
    LET action == Str(e, "action") IN
    CASE action = "submit" ->
            IF Has(e, "tagName") /\ e.tagName = "FORM"
            THEN <<HandleSubmit(g, e)>> ELSE <<>>
      [] action = "keydown" ->
            IF Has(e, "keyCode") /\ e.keyCode = 9
            THEN <<HandleKeyDown(g, e)>> ELSE <<>>
      [] action = "click" -> <<HandleClick(g, o, e)>>
      [] action = "change" ->
            IF Has(e, "tagName") /\ e.tagName = "SELECT"
            THEN <<HandleSelectChange(g, e)>>
            ELSE <<HandleChange(g, e)>>
      [] action = "goto*" -> <<HandleGoto(g, e)>>
      [] action = "viewport*" -> <<HandleViewport(g, e)>>
      [] action = "navigation*" -> <<HandleWaitForNavigation(g, o)>>
      [] OTHER -> <<>>

\* reading value.width of an undefined value raises
DispatchThrows(e) == Str(e, "action") = "viewport*" /\ ~Has(e, "value")

MutPushBlockInFront(blocks, block) == <<block>> \o blocks

\* this._blocks.push(block)
PushBlock(blocks, block) == Append(blocks, block)

\* idx is the 1-based position of e in events
ParseEvent(g, o, e, idx) ==
    IF e = Missing
    THEN [threw |-> TRUE, g |-> g]
    ELSE
      LET g1 == SetFrames(g, e) IN
      IF DispatchThrows(e)
      THEN [threw |-> TRUE, g |-> g1]
      ELSE
        LET newBlock == Dispatch(g1, o, e)
            g2 == IF Str(e, "action") = "navigation*"
                  THEN [g1 EXCEPT !.hasNavigation = TRUE] ELSE g1
        IN  IF newBlock # <<>>
            THEN [threw |-> FALSE,
                  g |-> [g2 EXCEPT !.blocks =
                           PushBlock(@, HandleComments([newBlock[1] EXCEPT !.ev = idx], e))]]
            ELSE [threw |-> FALSE, g |-> g2]

NavigationPromiseLine ==
    [type |-> "navigation-promise*",
     value |-> <<"const navigationPromise = page.waitForNavigation()">>]

MutUnshiftBlockAtEnd(blocks, block) == Append(blocks, block)

\* this._blocks.unshift(block)
UnshiftBlock(blocks, block) == <<block>> \o blocks

\* after the loop: the navigation-promise block is put in front
AddNavigationPromise(g, o) ==
    IF g.hasNavigation /\ o.waitForNavigation
    THEN [g EXCEPT !.blocks = UnshiftBlock(@, NewBlock(g.frameId, NavigationPromiseLine))]
    ELSE g

----------------------------------------------------------------------------
(* _postProcess and its two passes *)

\* a variant whose test never matches (frame id compared with the string keys)
MutPendingLinesNeverMatch(g, block) == {}

\* indices of the lines of a block whose frame id is still pending
PendingLines(g, block) ==
    { n \in 1..Len(block.lines) :
        /\ block.lines[n].frameId # 0
        /\ block.lines[n].frameId \in DOMAIN g.allFrames }

FrameDeclaration(g, frameId) ==
    [type |-> "frame-set*",
     value |-> <<"const ", FrameVar(frameId), " = frames.find(f => f.url() === '",
                 g.allFrames[frameId], "')">>]

FramesFetch == [type |-> "frame-set*", value |-> <<"let frames = await page.frames()">>]

MutDeletePendingKeeps(allFrames, frameId) == allFrames

\* delete this._allFrames[frameId]
DeletePending(allFrames, frameId) ==
    [f \in DOMAIN allFrames \ {frameId} |-> allFrames[f]]

\* _postProcessSetFrames: the body of the loop for the block at index n (1-based)
SetFramesInBlock(g, n) ==
    LET block == g.blocks[n]
        hits  == PendingLines(g, block)
    IN  IF hits = {}
        THEN g
        ELSE
          LET first == CHOOSE h \in hits : \A h2 \in hits : h <= h2
              fid   == block.lines[first].frameId
          IN  [g EXCEPT
                 !.blocks[n] = AddLineToTop(AddLineToTop(@, FrameDeclaration(g, fid)),
                                            FramesFetch),
                 !.allFrames = DeletePending(@, fid)]

BlankBlock == AddLine(EmptyBlock(0), [type |-> "null", value |-> <<"">>])

\* this._blocks.splice(at, 0, block) with a 0-based index at
Splice(blocks, at, block) ==
    LET pos == IF at > Len(blocks) THEN Len(blocks) ELSE at IN
    SubSeq(blocks, 1, pos) \o <<block>> \o SubSeq(blocks, pos + 1, Len(blocks))

\* a variant that inserts two blocks per iteration, as many as the index advances
MutAddBlankLineTwice(g, n) ==
    [g EXCEPT !.blocks = Splice(Splice(@, n, BlankBlock), n, BlankBlock)]

MutAddBlankLineAtEnd(g, n) == [g EXCEPT !.blocks = Append(@, BlankBlock)]

\* _postProcessAddBlankLines: the body of the while loop at index n (0-based)
AddBlankLineAt(g, n) == [g EXCEPT !.blocks = Splice(@, n, BlankBlock)]

MutAfterSetFramesIgnoresOption(g, o) ==
    IF Len(g.blocks) > 0 THEN "blankLines" ELSE "render"

\* where _postProcess goes after the frame pass
AfterSetFrames(g, o) ==
    IF o.blankLinesBetweenBlocks /\ Len(g.blocks) > 0 THEN "blankLines" ELSE "render"

\* where _postProcess starts
EnterPostProcess(g, o) ==
    IF Cardinality(DOMAIN g.allFrames) > 0 /\ Len(g.blocks) > 0
    THEN "setFrames"
    ELSE AfterSetFrames(g, o)

----------------------------------------------------------------------------
(* Rendering *)

RECURSIVE Flatten(_)
Flatten(seqs) == IF seqs = <<>> THEN <<>> ELSE Head(seqs) \o Flatten(Tail(seqs))

\* the lines of all blocks, in order
AllLines(blocks) == Flatten([n \in 1..Len(blocks) |-> blocks[n].lines])

\* result += indent + line.value + newLine, for every line of every block
Linearize(g, o) ==
    LET indent == IF o.wrapAsync THEN "  " ELSE ""
        lines  == AllLines(g.blocks)
    IN  Flatten([n \in 1..Len(lines) |-> <<indent>> \o lines[n].value \o <<"\n">>])

importPuppeteer == <<"const puppeteer = require('puppeteer');", "\n">>

header ==
    <<"const browser = await puppeteer.", "launch()", "\n",
      "const page = await browser.newPage()">>

footer == <<"await browser.close()">>

wrappedHeader ==
    <<"(async () => {", "\n",
      "  const browser = await puppeteer.", "launch()", "\n",
      "  const page = await browser.newPage()", "\n">>

wrappedFooter == <<"  await browser.close()", "\n", "})()">>

\* String.prototype.replace with a string pattern: the first occurrence only
ReplaceFirst(text, pattern, by) ==
    LET hits == { n \in 1..Len(text) : text[n] = pattern } IN
    IF hits = {} THEN text
    ELSE LET first == CHOOSE h \in hits : \A h2 \in hits : h <= h2
         IN  [text EXCEPT ![first] = by]

GetHeader(o) ==
    LET hdr == IF o.wrapAsync THEN wrappedHeader ELSE header IN
    IF o.headless THEN hdr ELSE ReplaceFirst(hdr, "launch()", "launch({ headless: false })")

GetFooter(o) == IF o.wrapAsync THEN wrappedFooter ELSE footer

\* generate: importPuppeteer + header + body + footer
ScriptText(g, o) == importPuppeteer \o GetHeader(o) \o Linearize(g, o) \o GetFooter(o)

----------------------------------------------------------------------------
(* generate(events) on an instance with fields g, as one function: the     *)
(* composition of the steps above.  The text, or <<"TypeError">> when an   *)
(* iteration of the loop raises.                                           *)

RECURSIVE ParseEvents(_, _, _, _)
ParseEvents(g, o, evs, n) ==
    IF n > Len(evs) THEN [threw |-> FALSE, g |-> g]
    ELSE LET r == ParseEvent(g, o, evs[n], n) IN
         IF r.threw THEN r ELSE ParseEvents(r.g, o, evs, n + 1)

RECURSIVE PostProcessSetFrames(_, _)
PostProcessSetFrames(g, n) ==
    IF n > Len(g.blocks) THEN g ELSE PostProcessSetFrames(SetFramesInBlock(g, n), n + 1)

RECURSIVE PostProcessAddBlankLines(_, _)
PostProcessAddBlankLines(g, n) ==
    IF n <= Len(g.blocks) THEN PostProcessAddBlankLines(AddBlankLineAt(g, n), n + 2) ELSE g

PostProcess(g, o) ==
    LET g1 == IF Cardinality(DOMAIN g.allFrames) > 0
              THEN PostProcessSetFrames(g, 1) ELSE g
    IN  IF o.blankLinesBetweenBlocks /\ Len(g1.blocks) > 0
        THEN PostProcessAddBlankLines(g1, 0) ELSE g1

GenerateResult(g, o, evs) ==
    LET r == ParseEvents(g, o, evs, 1) IN
    IF r.threw THEN <<"TypeError">>
    ELSE ScriptText(PostProcess(AddNavigationPromise(r.g, o), o), o)

----------------------------------------------------------------------------
(* The content script (src/src/content-scripts/index.js): EventRecorder    *)
(* instances in one window.  w is the page: the recorders, the two flags   *)
(* on window and window.document, the listeners registered on window and   *)
(* on chrome.runtime.onMessage, what chrome.storage holds, the storage     *)
(* callbacks not yet run and the messages given to chrome.runtime.         *)
(* Counters of w: fired (DOM events fired), clock (the timeStamp of the     *)
(* last one, event time never running backwards) and asked (the requests    *)
(* the extension has made of the page, each made once).                    *)
(* History fields of w: starts (start() invocations), started (callbacks   *)
(* run), messages (every message handed to sendMessage) and recordCalls    *)
(* (one entry per recordEvent call: recorder, timeStamp, and the length of *)
(* messages before and after the call).                                    *)

NoEvent == [none |-> TRUE]

NoOptions == [none |-> TRUE]

\* constructor ()
NewEventRecorder ==
    [ eventLog |-> <<>>, previousEvent |-> NoEvent,
      dataAttributes |-> <<>>, useRegexForDataAttribute |-> FALSE ]

\* Object.values(eventsToRecord): the DOM event types that are listened to,
\* three standing for the list of dom-events-to-record
EventTypesToRecord == <<"click", "change", "keydown">>

\* what chrome.storage.local can hold under `options`; dataAttribute is the
\* option text as tokens, " " being a space
StoredOptions ==
    { NoOptions,
      [code |-> [dataAttribute |-> <<>>, useRegexForDataAttribute |-> FALSE]],
      [code |-> [dataAttribute |-> <<"data-x", " ", " ", "data-id">>,
                 useRegexForDataAttribute |-> FALSE]],
      [code |-> [dataAttribute |-> <<"^data-">>, useRegexForDataAttribute |-> TRUE]] }

NewPage(hasRuntime, stored) ==
    [ recorders |-> <<>>,
      windowFlag |-> FALSE,
      documentFlag |-> FALSE,
      domListeners |-> <<>>,
      runtimeListeners |-> <<>>,
      hasRuntime |-> hasRuntime,
      storedOptions |-> stored,
      pending |-> <<>>,
      runtimeSent |-> <<>>,
      fired |-> 0,
      asked |-> {},
      clock |-> 1,
      starts |-> 0,
      started |-> 0,
      messages |-> <<>>,
      recordCalls |-> <<>> ]

\* dataAttribute.split(' '): the texts between the spaces ("" between two
\* adjacent spaces and at a leading or trailing space)
RECURSIVE SplitAtSpaces(_, _)
SplitAtSpaces(text, word) ==
    IF text = <<>> THEN <<word>>
    ELSE IF Head(text) = " "
         THEN <<word>> \o SplitAtSpaces(Tail(text), "")
         ELSE SplitAtSpaces(Tail(text), word \o Head(text))

NotEmptyText(f) == f # ""

\* split(' ').filter(f => f !== '').map(f => regex ? new RegExp(f) : f)
DataAttributePatterns(dataAttribute, useRegex) ==
    LET words == SelectSeq(SplitAtSpaces(dataAttribute, ""), NotEmptyText) IN
    [n \in 1..Len(words) |-> [regex |-> useRegex, source |-> words[n]]]

\* RegExp.prototype.test for the patterns of this model
RegExpTest(source, name) ==
    CASE source = "^data-" -> name \in {"data-id", "data-x"}
      [] OTHER -> name = source

\* this.useRegexForDataAttribute ? patternAttr.test(name) : patternAttr === name
PatternMatches(rec, pattern, name) ==
    IF rec.useRegexForDataAttribute
    THEN RegExpTest(pattern.source, name)
    ELSE ~pattern.regex /\ pattern.source = name

\* sendMessage (msg) of recorder r
SendMessage(w, r, msg) ==
    LET w1 == [w EXCEPT !.messages = Append(@, msg)] IN
    IF w.hasRuntime
    THEN [w1 EXCEPT !.runtimeSent = Append(@, msg)]
    ELSE [w1 EXCEPT !.recorders[r].eventLog = Append(@, msg)]

\* addAllListeners (elements, events) of recorder r
AddAllListeners(w, r) ==
    [w EXCEPT !.domListeners =
        @ \o [n \in 1..Len(EventTypesToRecord) |->
                 [type |-> EventTypesToRecord[n], recorder |-> r]]]

MutWindowNeedsListenersAlways(w) == TRUE

\* !window.pptRecorderAddedControlListeners
WindowNeedsListeners(w) == ~w.windowFlag

\* !window.document.pptRecorderAddedControlListeners && chrome.runtime && ...
DocumentNeedsListeners(w) == ~w.documentFlag /\ w.hasRuntime

\* the callback of chrome.storage.local.get in start (), for recorder r
StartCallback(w, r) ==
    LET code == IF w.storedOptions # NoOptions THEN w.storedOptions.code
                ELSE [none |-> TRUE]
        hasData == Has(code, "dataAttribute") /\ code.dataAttribute # <<>>
        useRegex == Has(code, "useRegexForDataAttribute") /\ code.useRegexForDataAttribute
        w1 == [w EXCEPT
                 !.recorders[r].dataAttributes =
                     IF hasData THEN DataAttributePatterns(code.dataAttribute, useRegex)
                     ELSE @,
                 !.recorders[r].useRegexForDataAttribute = useRegex]
        w2 == IF WindowNeedsListeners(w1)
              THEN [AddAllListeners(w1, r) EXCEPT !.windowFlag = TRUE]
              ELSE w1
        w3 == IF DocumentNeedsListeners(w2)
              THEN [w2 EXCEPT
                      !.runtimeListeners =
                          @ \o <<[handler |-> "getCurrentUrl", recorder |-> r],
                                 [handler |-> "getViewPortSize", recorder |-> r]>>,
                      !.documentFlag = TRUE]
              ELSE w2
    IN  [SendMessage(w3, r, [control |-> "event-recorder-started"])
            EXCEPT !.started = @ + 1]

\* getCurrentUrl (msg) and getViewPortSize (msg) of recorder r
RuntimeHandler(w, handler, r, msg) ==
    IF handler = "getCurrentUrl" /\ msg.control = "get-current-url"
    THEN SendMessage(w, r, [control |-> msg.control, href |-> "location.href"])
    ELSE IF handler = "getViewPortSize" /\ msg.control = "get-viewport-size"
    THEN SendMessage(w, r, [control |-> msg.control,
                            coordinates |-> [width |-> "innerWidth",
                                             height |-> "innerHeight"]])
    ELSE w

\* getCoordinates (evt)
GetCoordinates(e) ==
    IF e.type \in {"mouseup", "mousedown", "mousemove", "mouseover"}
    THEN [x |-> "clientX", y |-> "clientY"]
    ELSE [null |-> TRUE]

RECURSIVE EscapeDots(_)
EscapeDots(text) ==
    IF text = <<>> THEN <<>>
    ELSE <<IF Head(text) = "." THEN "\\." ELSE Head(text)>> \o EscapeDots(Tail(text))

\* formatDataSelector (element, attribute): `[attr="value"]` with every dot escaped
FormatDataSelector(target, attribute) ==
    EscapeDots(<<"[", attribute, "=\"">> \o target.attributes[attribute] \o <<"\"]">>)

\* the name of the first attribute of the target, in the target's order, that
\* the first matching pattern, in the patterns' order, matches; "" for null
CustomAttribute(rec, target) ==
    LET hits(pattern) == { n \in 1..Len(target.attributeNames) :
                             PatternMatches(rec, pattern, target.attributeNames[n]) }
        matching == { m \in 1..Len(rec.dataAttributes) : hits(rec.dataAttributes[m]) # {} }
    IN  IF matching = {} THEN ""
        ELSE LET m == CHOOSE x \in matching : \A y \in matching : x <= y
                 h == hits(rec.dataAttributes[m])
             IN  target.attributeNames[CHOOSE x \in h : \A y \in h : x <= y]

MutIsRepeatedTimeStampNever(rec, e) == FALSE

\* this.previousEvent && this.previousEvent.timeStamp === e.timeStamp
IsRepeatedTimeStamp(rec, e) ==
    rec.previousEvent # NoEvent /\ rec.previousEvent.timeStamp = e.timeStamp

\* recordEvent (e) of recorder r
RecordEvent(w, r, e) ==
    LET rec == w.recorders[r]
        note(w1) == [w1 EXCEPT !.recordCalls =
                        Append(@, [recorder |-> r, timeStamp |-> e.timeStamp,
                                   before |-> Len(w.messages),
                                   after |-> Len(w1.messages)])]
    IN
    IF IsRepeatedTimeStamp(rec, e)
    THEN note(w)
    ELSE
      LET w1 == [w EXCEPT !.recorders[r].previousEvent = e]
          customAttribute == CustomAttribute(rec, e.target)
          selector == IF customAttribute # ""
                      THEN FormatDataSelector(e.target, customAttribute)
                      ELSE <<e.target.finder>>
          comments == IF customAttribute # "" /\ e.target.sameSelector > 1
                      THEN "/!\\ The selector returns more than one element, thus the test will be wrong."
                      ELSE ""
          msg == [ selector |-> selector,
                   comments |-> comments,
                   value |-> e.target.value,
                   tagName |-> e.target.tagName,
                   action |-> e.type,
                   keyCode |-> e.keyCode,
                   href |-> IF e.target.href # "" THEN e.target.href ELSE "null",
                   coordinates |-> GetCoordinates(e) ]
      IN  note(SendMessage(w1, r, msg))

\* the browser calls the listeners registered for the type, in their order
RECURSIVE DispatchDomEvent(_, _, _)
DispatchDomEvent(w, e, n) ==
    IF n > Len(w.domListeners) THEN w
    ELSE DispatchDomEvent(
             IF w.domListeners[n].type = e.type
             THEN RecordEvent(w, w.domListeners[n].recorder, e) ELSE w,
             e, n + 1)

\* chrome.runtime.onMessage calls its listeners, in their order
RECURSIVE DispatchRuntimeMessage(_, _, _)
DispatchRuntimeMessage(w, msg, n) ==
    IF n > Len(w.runtimeListeners) THEN w
    ELSE DispatchRuntimeMessage(
             RuntimeHandler(w, w.runtimeListeners[n].handler,
                            w.runtimeListeners[n].recorder, msg),
             msg, n + 1)

\* the elements events are fired on; keyCode 0 stands for an absent key code
ButtonTarget ==
    [ tagName |-> "BUTTON", value |-> "undefined", href |-> "",
        attributeNames |-> <<"class", "data-id">>,
        attributes |-> ("class" :> <<"btn">>) @@ ("data-id" :> <<"a", ".", "b">>),
        finder |-> ".btn", sameSelector |-> 2 ]

LinkTarget ==
    [ tagName |-> "A", value |-> "undefined", href |-> "h",
      attributeNames |-> <<>>, attributes |-> <<>>,
      finder |-> "a", sameSelector |-> 1 ]

DomEvents ==
    UNION { { [type |-> "click", timeStamp |-> ts, keyCode |-> 0,
                target |-> ButtonTarget],
              [type |-> "keydown", timeStamp |-> ts, keyCode |-> 9,
                target |-> LinkTarget] } : ts \in 1..MaxTimeStamp }

RuntimeMessages ==
    { [control |-> "get-current-url"], [control |-> "get-viewport-size"] }

----------------------------------------------------------------------------
(* Actions *)

\* no generator has been constructed
InitGenerator ==
    /\ defaults = BuiltinDefaults
    /\ gen = NewGenerator
    /\ pc = "none"
    /\ events = <<>>
    /\ i = 0
    /\ k = 0
    /\ output = <<>>
    /\ optsArg = EmptyOptions
    /\ constructions = 0
    /\ calls = 0
    /\ prevEvents = <<>>
    /\ prevOutput = <<>>

\* the content script has not been injected
Init ==
    /\ InitGenerator
    /\ content = NewPage(FALSE, NoOptions)

\* new CodeGenerator(options); at most maxC constructions in a run
Construct(options, maxC) ==
    /\ pc \in {"none", "idle", "done", "threw"}
    /\ constructions < maxC
    /\ defaults' = ObjectAssign(defaults, options)
    /\ gen' = NewGenerator
    /\ pc' = "idle"
    /\ optsArg' = options
    /\ constructions' = constructions + 1
    /\ calls' = 0
    /\ events' = <<>>
    /\ i' = 0
    /\ k' = 0
    /\ output' = <<>>
    /\ prevEvents' = <<>>
    /\ prevOutput' = <<>>
    /\ UNCHANGED content

\* generate(evs) is entered; at most maxG calls on one instance
Generate(evs, maxG) ==
    /\ pc \in {"idle", "done", "threw"}
    /\ calls < maxG
    /\ events' = evs
    /\ i' = 0
    /\ k' = 0
    /\ pc' = "parse"
    /\ calls' = calls + 1
    /\ prevEvents' = IF pc = "done" THEN events ELSE prevEvents
    /\ prevOutput' = IF pc = "done" THEN output ELSE prevOutput
    /\ output' = <<>>
    /\ UNCHANGED <<defaults, gen, optsArg, constructions, content>>

\* one iteration of the for loop of _parseEvents
ParseStep ==
    /\ pc = "parse"
    /\ i < Len(events)
    /\ LET r == ParseEvent(gen, defaults, events[i + 1], i + 1) IN
         /\ gen' = r.g
         /\ pc' = IF r.threw THEN "threw" ELSE "parse"
         /\ i' = IF r.threw THEN i ELSE i + 1
    /\ UNCHANGED <<defaults, events, k, output, optsArg, constructions, calls,
                   prevEvents, prevOutput, content>>

\* the loop is over: the navigation-promise block, then _postProcess is entered
EndParse ==
    /\ pc = "parse"
    /\ i = Len(events)
    /\ LET g1 == AddNavigationPromise(gen, defaults)
           next == EnterPostProcess(g1, defaults)
       IN  /\ gen' = g1
           /\ pc' = next
           /\ k' = IF next = "setFrames" THEN 1 ELSE 0
    /\ UNCHANGED <<defaults, events, i, output, optsArg, constructions, calls,
                   prevEvents, prevOutput, content>>

\* one iteration of the loop over blocks of _postProcessSetFrames
SetFramesStep ==
    /\ pc = "setFrames"
    /\ LET g1 == SetFramesInBlock(gen, k) IN
         /\ gen' = g1
         /\ IF k < Len(gen.blocks)
            THEN /\ k' = k + 1
                 /\ pc' = pc
            ELSE /\ k' = 0
                 /\ pc' = AfterSetFrames(g1, defaults)
    /\ UNCHANGED <<defaults, events, i, output, optsArg, constructions, calls,
                   prevEvents, prevOutput, content>>

\* one test of the while condition of _postProcessAddBlankLines, and its body
AddBlankLinesStep ==
    /\ pc = "blankLines"
    /\ IF k <= Len(gen.blocks)
       THEN /\ gen' = AddBlankLineAt(gen, k)
            /\ k' = k + 2
            /\ pc' = pc
       ELSE /\ gen' = gen
            /\ k' = k
            /\ pc' = "render"
    /\ UNCHANGED <<defaults, events, i, output, optsArg, constructions, calls,
                   prevEvents, prevOutput, content>>

\* the blocks are linearized and generate returns
Render ==
    /\ pc = "render"
    /\ output' = ScriptText(gen, defaults)
    /\ pc' = "done"
    /\ UNCHANGED <<defaults, gen, events, i, k, optsArg, constructions, calls,
                   prevEvents, prevOutput, content>>

\* one generate call on a freshly constructed generator
Next ==
    \/ \E options \in OptionObjects : Construct(options, 1)
    \/ \E evs \in EventSeqs : Generate(evs, 1)
    \/ ParseStep
    \/ EndParse
    \/ SetFramesStep
    \/ AddBlankLinesStep
    \/ Render

Spec == Init /\ [][Next]_vars

\* several constructions, and several generate calls on one instance
NextReuse ==
    \/ \E options \in ReuseOptionObjects : Construct(options, MaxConstructions)
    \/ \E evs \in ReuseEventSeqs : Generate(evs, MaxCalls)
    \/ ParseStep
    \/ EndParse
    \/ SetFramesStep
    \/ AddBlankLinesStep
    \/ Render

SpecReuse == Init /\ [][NextReuse]_vars

\* one generate call on a freshly constructed generator, over the options
\* that shape the text
NextOptions ==
    \/ \E options \in TextOptionObjects : Construct(options, 1)
    \/ \E evs \in OptionEventSeqs : Generate(evs, 1)
    \/ ParseStep
    \/ EndParse
    \/ SetFramesStep
    \/ AddBlankLinesStep
    \/ Render

SpecOptions == Init /\ [][NextOptions]_vars

\* the same, with the loop of _postProcessAddBlankLines running on while its
\* condition holds: the code is sequential and nothing suspends it
SpecOptionsFair == SpecOptions /\ WF_vars(AddBlankLinesStep)

generatorVars == <<defaults, gen, pc, events, i, k, output, optsArg,
                   constructions, calls, prevEvents, prevOutput>>

\* a page, with or without chrome.runtime, and what chrome.storage holds
InitRecorder ==
    /\ InitGenerator
    /\ \E hasRuntime \in BOOLEAN, stored \in StoredOptions :
          content = NewPage(hasRuntime, stored)

\* the script is injected: window.eventRecorder = new EventRecorder(), and
\* its start() asks chrome.storage for the options; at most maxR recorders
\* and maxS start() invocations in a run
InjectScript(maxR, maxS) ==
    /\ Len(content.recorders) < maxR
    /\ content.starts < maxS
    /\ content' = [content EXCEPT
                     !.recorders = Append(@, NewEventRecorder),
                     !.pending = Append(@, Len(content.recorders) + 1),
                     !.starts = @ + 1]
    /\ UNCHANGED generatorVars

\* start () of recorder r is called again
Start(r, maxS) ==
    /\ r <= Len(content.recorders)
    /\ content.starts < maxS
    /\ content' = [content EXCEPT !.pending = Append(@, r), !.starts = @ + 1]
    /\ UNCHANGED generatorVars

\* chrome.storage answers one of the outstanding requests
RunStartCallback(n) ==
    /\ n <= Len(content.pending)
    /\ content' = StartCallback(
                     [content EXCEPT !.pending =
                         SubSeq(@, 1, n - 1) \o SubSeq(@, n + 1, Len(@))],
                     content.pending[n])
    /\ UNCHANGED generatorVars

\* the browser fires a DOM event on window; at most maxE events in a run
FireDomEvent(e, maxE) ==
    /\ content.fired < maxE
    /\ e.timeStamp >= content.clock
    /\ content' = DispatchDomEvent(
                     [content EXCEPT !.fired = @ + 1, !.clock = e.timeStamp], e, 1)
    /\ UNCHANGED generatorVars

\* the extension sends a message to the page
ReceiveRuntimeMessage(msg) ==
    /\ content.hasRuntime
    /\ msg.control \notin content.asked
    /\ content' = DispatchRuntimeMessage(
                     [content EXCEPT !.asked = @ \cup {msg.control}], msg, 1)
    /\ UNCHANGED generatorVars

\* clearEventLog () of recorder r
ClearEventLog(r) ==
    /\ r <= Len(content.recorders)
    /\ content.recorders[r].eventLog # <<>>
    /\ content' = [content EXCEPT !.recorders[r].eventLog = <<>>]
    /\ UNCHANGED generatorVars

\* one injection of the script, and the events of the page
NextRecorder ==
    \/ InjectScript(1, 1)
    \/ \E n \in 1..MaxStarts : RunStartCallback(n)
    \/ \E e \in DomEvents : FireDomEvent(e, MaxDomEvents)
    \/ \E msg \in RuntimeMessages : ReceiveRuntimeMessage(msg)
    \/ \E r \in 1..MaxRecorders : ClearEventLog(r)

SpecRecorder == InitRecorder /\ [][NextRecorder]_vars

\* several injections of the script and several start() invocations in one
\* window, and one event of the page
NextStarts ==
    \/ InjectScript(MaxRecorders, MaxStarts)
    \/ \E r \in 1..MaxRecorders : Start(r, MaxStarts)
    \/ \E n \in 1..MaxStarts : RunStartCallback(n)
    \/ \E e \in DomEvents : FireDomEvent(e, 1)
    \/ \E msg \in RuntimeMessages : ReceiveRuntimeMessage(msg)
    \/ \E r \in 1..MaxRecorders : ClearEventLog(r)

SpecStarts == InitRecorder /\ [][NextStarts]_vars

----------------------------------------------------------------------------
(* Properties *)

\* the first i events have been consumed without a TypeError
Parsing == pc = "parse"

\* generate has returned its text
Returned == pc = "done"

\* `if (x)` for an optional string field, and for an optional number field
TruthyText(e, f) == Has(e, f) /\ e[f] # ""
TruthyNumber(e, f) == Has(e, f) /\ e[f] # 0

\* C1: constructing with {} and generating gives the text that constructing
\* with the explicit built-in defaults gives, whatever was constructed before
C1_EmptyOptionsGiveDefaultText ==
    (Returned /\ calls = 1 /\ optsArg = EmptyOptions)
        => output = GenerateResult(NewGenerator,
                                   ObjectAssign(defaults, BuiltinDefaults), events)

\* C2: a second generate on the same generator with the same events returns
\* the text of the first
C2_SecondGenerateSameText ==
    (Returned /\ calls >= 2 /\ prevOutput # <<>> /\ prevEvents = events)
        => output = prevOutput

\* C3: generate never aborts on a record, whatever its fields
C3_NeverAborts == pc # "threw"

\* the dispatch rules of the specification
ProducesBlock(e, o) ==
    LET action == Str(e, "action") IN
    \/ action = "submit" /\ Has(e, "tagName") /\ e.tagName = "FORM"
    \/ action = "keydown" /\ Has(e, "keyCode") /\ e.keyCode = 9
    \/ action \in {"click", "change", "goto*", "viewport*"}
    \/ action = "navigation*" /\ o.waitForNavigation

\* C4: an event appends a block iff it matches a dispatch rule, so after i
\* events the list holds as many blocks as block-producing events were seen
C4_BlockIffDispatchRule ==
    Parsing => Len(gen.blocks) =
                 Cardinality({n \in 1..i : ProducesBlock(events[n], defaults)})

\* the lines of the block list, in rendering order
Lines == AllLines(gen.blocks)

\* the positions of the blocks generated from events
EventBlocks == { p \in 1..Len(gen.blocks) : gen.blocks[p].ev # 0 }

HasLineOfType(block, type) == \E n \in 1..Len(block.lines) : block.lines[n].type = type

\* C5: blocks generated from events stand in the order of their events; the
\* blocks generated from no event are the navigation-promise block and the
\* blank blocks
C5_BlockOrderMirrorsEventOrder ==
    /\ \A p, q \in EventBlocks : p < q => gen.blocks[p].ev < gen.blocks[q].ev
    /\ \A p \in 1..Len(gen.blocks) :
          gen.blocks[p].ev = 0 =>
              \/ gen.blocks[p] = BlankBlock
              \/ HasLineOfType(gen.blocks[p], "navigation-promise*")

C5_Witness ==
    /\ Returned
    /\ defaults.waitForNavigation /\ gen.hasNavigation
    /\ \E p, q \in EventBlocks : p < q /\ gen.blocks[p].ev = 1 /\ gen.blocks[q].ev = 2

Count(seq, x) == Cardinality({ n \in 1..Len(seq) : seq[n] = x })

HasNavigationEvent ==
    \E n \in 1..Len(events) : Str(events[n], "action") = "navigation*"

\* a line that was generated from an event: a statement or a comment
IsEventLine(line) == line.type \notin {"frame-set*", "null", "navigation-promise*"}

NavigationPromiseLines ==
    { n \in 1..Len(Lines) : Lines[n].type = "navigation-promise*" }

\* C6: the returned text holds the navigation-promise declaration once when a
\* navigation* event was given and waitForNavigation is on, and not at all
\* otherwise; the declaration stands before every line generated from an event
C6_NavigationPromiseHoisted ==
    Returned =>
        /\ Count(output, NavigationPromiseLine.value[1]) =
              IF HasNavigationEvent /\ defaults.waitForNavigation THEN 1 ELSE 0
        /\ Cardinality(NavigationPromiseLines) =
              Count(output, NavigationPromiseLine.value[1])
        /\ \A d \in NavigationPromiseLines : \A n \in 1..Len(Lines) :
              IsEventLine(Lines[n]) => d < n

C6_Witness ==
    /\ Returned
    /\ defaults.waitForNavigation
    /\ Len(events) = 2
    /\ Str(events[1], "action") = "click"
    /\ Str(events[2], "action") = "navigation*"
    /\ Cardinality(NavigationPromiseLines) = 1

\* the frame ids the events carry
UsedFrameIds ==
    { events[n].frameId : n \in { m \in 1..Len(events) : Has(events[m], "frameId") } }

IsFrameDeclaration(line, frameId) ==
    /\ line.type = "frame-set*"
    /\ Len(line.value) = 5
    /\ line.value[2] = FrameVar(frameId)

DeclCount(frameId) ==
    Cardinality({ n \in 1..Len(Lines) : IsFrameDeclaration(Lines[n], frameId) })

\* the positions of the blocks with a line of that frame id
Referencing(frameId) ==
    { p \in 1..Len(gen.blocks) :
        \E n \in 1..Len(gen.blocks[p].lines) : gen.blocks[p].lines[n].frameId = frameId }

Min(S) == CHOOSE x \in S : \A y \in S : x <= y

FramePassOver == pc \in {"blankLines", "render", "done"}

\* C7: a frame id is declared at most once; it is declared exactly when a block
\* references it and it has left the pending map; the pair (frame list, then
\* frame_<id>) heads the first block that references the id; once the pass is
\* over every referenced non-zero id is declared; frame id 0 never is
C7_FrameDeclaredOnceAtFirstUse ==
    /\ DeclCount(0) = 0
    /\ \A f \in UsedFrameIds \ {0} :
          /\ DeclCount(f) <= 1
          /\ DeclCount(f) = 1 <=> (f \notin DOMAIN gen.allFrames /\ Referencing(f) # {})
          /\ DeclCount(f) = 1 =>
                LET first == gen.blocks[Min(Referencing(f))] IN
                /\ Len(first.lines) >= 3
                /\ first.lines[1] = Stamp(f, FramesFetch)
                /\ IsFrameDeclaration(first.lines[2], f)
          /\ (FramePassOver /\ Referencing(f) # {}) => DeclCount(f) = 1
    /\ Count([n \in 1..Len(Lines) |-> Lines[n].value], FramesFetch.value) =
          Cardinality({ f \in UsedFrameIds \ {0} : DeclCount(f) = 1 })

C7_Witness ==
    /\ Returned
    /\ Cardinality(Referencing(1)) >= 2
    /\ DeclCount(1) = 1
    /\ 1 \notin DOMAIN gen.allFrames

FirstEventOfFrame(frameId) ==
    Min({ n \in 1..Len(events) : Has(events[n], "frameId") /\ events[n].frameId = frameId })

\* C8: the declaration of frame_<id> compares against the frameUrl of the first
\* event that carries the id
C8_DeclarationUsesFirstUrl ==
    Returned =>
        \A f \in UsedFrameIds \ {0} : \A n \in 1..Len(Lines) :
            IsFrameDeclaration(Lines[n], f) =>
                Lines[n].value[4] = Str(events[FirstEventOfFrame(f)], "frameUrl")

CommentLine(e) == <<"/** ", e.comments, " */">>

\* C9: in the final block list the block of an event with comments starts with
\* the comment line, and the block of an event without comments has none
C9_CommentIsFirstLine ==
    Returned =>
        \A p \in EventBlocks :
            LET block == gen.blocks[p]
                e     == events[block.ev]
            IN  IF TruthyText(e, "comments")
                THEN /\ Len(block.lines) >= 1
                     /\ block.lines[1].value = CommentLine(e)
                     /\ \A n \in 2..Len(block.lines) : block.lines[n].type # "undefined"
                ELSE ~HasLineOfType(block, "undefined")

\* a statement that addresses a frame handle: await <handle>.<call>
AddressesHandle(line) == Len(line.value) >= 2 /\ line.value[1] = "await "

HandleOf(e) == IF TruthyNumber(e, "frameId") THEN FrameVar(e.frameId) ELSE "page"

\* C10: every statement generated from an event addresses frame_<id> of that
\* event's own frame id, or page when the id is 0 or absent
C10_StatementAddressesOwnFrame ==
    \A p \in EventBlocks :
        \A n \in 1..Len(gen.blocks[p].lines) :
            AddressesHandle(gen.blocks[p].lines[n]) =>
                gen.blocks[p].lines[n].value[2] = HandleOf(events[gen.blocks[p].ev])

C10_Witness ==
    /\ Returned
    /\ Len(events) = 2
    /\ events[1] # Missing /\ TruthyNumber(events[1], "frameId")
    /\ events[2] # Missing /\ ~TruthyNumber(events[2], "frameId")
    /\ \E p \in EventBlocks :
          /\ gen.blocks[p].ev = 2
          /\ \E n \in 1..Len(gen.blocks[p].lines) :
                /\ AddressesHandle(gen.blocks[p].lines[n])
                /\ gen.blocks[p].lines[n].value[2] = "page"


\* the block list as _postProcess hands it to the blank-line pass, for the
\* first generate call of a generator
BlocksBeforeBlankLines ==
    LET r  == ParseEvents(NewGenerator, defaults, events, 1)
        g1 == AddNavigationPromise(r.g, defaults)
        g2 == IF Cardinality(DOMAIN g1.allFrames) > 0
              THEN PostProcessSetFrames(g1, 1) ELSE g1
    IN  g2.blocks

PostProcessOver == pc \in {"render", "done"}

\* C11: with blankLinesBetweenBlocks on, a list of n >= 1 blocks leaves the
\* pass with 2n+1 blocks, a blank block at every even 0-based position and the
\* original blocks, in order, at the odd ones; an empty list stays empty
C11_BlankLinesInterleaved ==
    (PostProcessOver /\ defaults.blankLinesBetweenBlocks) =>
        LET before == BlocksBeforeBlankLines
            n      == Len(before)
        IN  IF n >= 1
            THEN /\ Len(gen.blocks) = 2 * n + 1
                 /\ \A j \in 0..n : gen.blocks[2 * j + 1] = BlankBlock
                 /\ \A j \in 1..n : gen.blocks[2 * j] = before[j]
            ELSE gen.blocks = <<>>

C11_Witness ==
    /\ Returned
    /\ defaults.blankLinesBetweenBlocks
    /\ Len(BlocksBeforeBlankLines) = 3
    /\ Len(gen.blocks) = 7

C11_WitnessEmpty ==
    /\ Returned
    /\ defaults.blankLinesBetweenBlocks
    /\ gen.blocks = <<>>


\* a text line that holds nothing but its indent ends at position n
EmptyTextLineAt(text, n) ==
    /\ text[n] = "\n"
    /\ n > 1
    /\ text[n - 1] \in {"", "  ", "\n"}

\* C12: with blankLinesBetweenBlocks off the block list holds no blank block
\* after post-processing and the returned text has no empty line
C12_NoBlankLinesWhenOff ==
    (PostProcessOver /\ ~defaults.blankLinesBetweenBlocks) =>
        /\ \A p \in 1..Len(gen.blocks) : gen.blocks[p] # BlankBlock
        /\ \A n \in 1..Len(Lines) : Lines[n].value # <<"">>
        /\ \A n \in 1..Len(output) : ~EmptyTextLineAt(output, n)

C12_Witness ==
    /\ Returned
    /\ ~defaults.blankLinesBetweenBlocks
    /\ Len(gen.blocks) >= 2
    /\ Len(Lines) >= 3


IsClick(e) == e # Missing /\ Str(e, "action") = "click"

\* the statements the specification gives a click: wait (if configured),
\* click, custom line (if configured), on the event's selector and frame
ClickStatements(e, o) ==
    (IF o.waitForSelectorOnClick
     THEN << <<"await ", HandleOf(e), ".waitForSelector('", Str(e, "selector"), "')">> >>
     ELSE <<>>)
    \o << <<"await ", HandleOf(e), ".click('", Str(e, "selector"), "')">> >>
    \o (IF o.customLineAfterClick # "" THEN << <<o.customLineAfterClick>> >> ELSE <<>>)

IsStatement(line) == line.type = "click"

StatementValues(block) ==
    LET st == SelectSeq(block.lines, IsStatement) IN
    [n \in 1..Len(st) |-> st[n].value]

\* the number of events the loop of _parseEvents has gone through
Consumed == IF pc \in {"parse", "threw"} THEN i ELSE Len(events)

\* C13: every click event that was consumed has exactly one block; its
\* statements are the wait (iff waitForSelectorOnClick), the click and the
\* custom line (iff customLineAfterClick is not empty), in this order, and
\* only comment and frame declaration lines stand before them
C13_ClickBlockShape ==
    \A n \in 1..Consumed :
        IsClick(events[n]) =>
            /\ Cardinality({ p \in EventBlocks : gen.blocks[p].ev = n }) = 1
            /\ \A p \in EventBlocks :
                  gen.blocks[p].ev = n =>
                      LET block == gen.blocks[p]
                          stmts == ClickStatements(events[n], defaults)
                          first == Len(block.lines) - Len(stmts)
                      IN  /\ StatementValues(block) = stmts
                          /\ first >= 0
                          /\ \A m \in 1..Len(block.lines) :
                                IsStatement(block.lines[m]) <=> m > first

C13_Witness ==
    /\ Returned
    /\ defaults.waitForSelectorOnClick
    /\ defaults.customLineAfterClick # ""
    /\ \E p \in EventBlocks :
          /\ IsClick(events[gen.blocks[p].ev])
          /\ TruthyText(events[gen.blocks[p].ev], "comments")
          /\ Len(StatementValues(gen.blocks[p])) = 3


\* C14: the navigation-promise block holds its declaration line only, and a
\* frame declaration pair heads a block generated from an event of that frame
C14_NavigationPromiseBlockUntouched ==
    FramePassOver =>
        \A p \in 1..Len(gen.blocks) :
            /\ HasLineOfType(gen.blocks[p], "navigation-promise*") =>
                  gen.blocks[p].lines = <<Stamp(gen.blocks[p].frameId, NavigationPromiseLine)>>
            /\ HasLineOfType(gen.blocks[p], "frame-set*") =>
                  /\ gen.blocks[p].ev # 0
                  /\ IsFrameDeclaration(gen.blocks[p].lines[2],
                                        gen.blocks[p].frameId)
                  /\ TruthyNumber(events[gen.blocks[p].ev], "frameId")
                  /\ events[gen.blocks[p].ev].frameId = gen.blocks[p].frameId


Positions(text, token) == { n \in 1..Len(text) : text[n] = token }

\* C15: in the returned text the first occurrence of frame_<id> is its
\* declaration, and the fetch of the frame list stands before it
C15_FrameDeclaredBeforeUse ==
    Returned =>
        \A f \in UsedFrameIds \ {0} :
            Positions(output, FrameVar(f)) # {} =>
                LET first == Min(Positions(output, FrameVar(f))) IN
                /\ output[first - 1] = "const "
                /\ output[first + 1] = " = frames.find(f => f.url() === '"
                /\ \E m \in 1..(first - 1) : output[m] = FramesFetch.value[1]

C15_Witness ==
    /\ Returned
    /\ Cardinality(Positions(output, FrameVar(1))) >= 3
    /\ Positions(output, FrameVar(2)) # {}


\* the position of the last statement of the header in the returned text
LastHeaderStatement ==
    Min({ n \in 1..Len(output) :
            output[n] \in {header[Len(header)], wrappedHeader[Len(wrappedHeader) - 1]} })

\* C16: in the returned text the last header statement is ended by a newline
\* before the text of the first body line, or of the footer, begins
C16_HeaderEndsWithNewline ==
    Returned =>
        LET after == { n \in (LastHeaderStatement + 1)..Len(output) : output[n] # "" }
        IN  /\ after # {}
            /\ output[Min(after)] = "\n"


\* C17: the blank-line pass ends; after j insertions the index is 2j and the
\* list holds n + j blocks, j never exceeds n + 1, and the loop is left after
\* exactly n + 1 insertions
C17_BlankLinePassTerminates ==
    /\ [](pc = "blankLines" =>
            LET n == Len(BlocksBeforeBlankLines) IN
            /\ k % 2 = 0
            /\ k <= 2 * (n + 1)
            /\ Len(gen.blocks) = n + (k \div 2))
    /\ (pc = "blankLines") ~>
            (/\ pc = "render"
             /\ k = 2 * (Len(BlocksBeforeBlankLines) + 1)
             /\ Len(gen.blocks) = 2 * Len(BlocksBeforeBlankLines) + 1)

C17_Witness ==
    /\ pc = "render"
    /\ defaults.blankLinesBetweenBlocks
    /\ Len(BlocksBeforeBlankLines) = 3
    /\ k = 8

\* the recordEvent calls made so far
RecordCalls == content.recordCalls

\* call n handed a message to sendMessage
Recorded(n) == RecordCalls[n].after = RecordCalls[n].before + 1

\* call n returned without handing anything to sendMessage
Skipped(n) == RecordCalls[n].after = RecordCalls[n].before

\* the calls before call n, on the same recorder, that recorded their event
RecordedBefore(n) ==
    { m \in 1..(n - 1) : RecordCalls[m].recorder = RecordCalls[n].recorder /\ Recorded(m) }

Max(S) == CHOOSE x \in S : \A y \in S : y <= x

\* C18: a recordEvent call sends no message exactly when its event carries
\* the timeStamp of the event most recently recorded (not skipped) by the
\* recorder, and otherwise sends one message, of that event; the recorder's
\* comparison point is always the event it recorded last.
C18_SameTimeStampSkipped ==
    /\ \A n \in 1..Len(RecordCalls) :
          LET before == RecordedBefore(n)
              repeated == before # {} /\
                          RecordCalls[Max(before)].timeStamp = RecordCalls[n].timeStamp
          IN  /\ repeated => Skipped(n)
              /\ ~repeated => Recorded(n)
    /\ \A r \in 1..Len(content.recorders) :
          LET mine == { n \in 1..Len(RecordCalls) :
                          RecordCalls[n].recorder = r /\ Recorded(n) }
              previousEvent == content.recorders[r].previousEvent
          IN  IF mine = {} THEN previousEvent = NoEvent
              ELSE /\ previousEvent # NoEvent
                   /\ previousEvent.timeStamp = RecordCalls[Max(mine)].timeStamp
                   /\ content.messages[RecordCalls[Max(mine)].after].action =
                          previousEvent.type

\* three events were delivered with timeStamps 1, 1, 2: the first recorded,
\* the second skipped, the third recorded
C18_Witness ==
    /\ Len(RecordCalls) = 3
    /\ RecordCalls[1].timeStamp = 1 /\ Recorded(1)
    /\ RecordCalls[2].timeStamp = 1 /\ Skipped(2)
    /\ RecordCalls[3].timeStamp = 2 /\ Recorded(3)

\* how many entries of a sequence satisfy a test
CountOf(seq, Test(_)) == Cardinality({ n \in 1..Len(seq) : Test(seq[n]) })

IsStartedMessage(msg) == Has(msg, "control") /\ msg.control = "event-recorder-started"

\* C19: whatever start() invocations and recorder instances a window sees,
\* each DOM event type has at most one listener on window, each of the two
\* runtime handlers at most one listener on chrome.runtime.onMessage, and
\* every start() invocation whose storage callback has run has sent one
\* 'event-recorder-started' message.
C19_ListenersRegisteredOnce ==
    /\ \A t \in 1..Len(EventTypesToRecord) :
          LET OfType(l) == l.type = EventTypesToRecord[t] IN
          CountOf(content.domListeners, OfType) = IF content.windowFlag THEN 1 ELSE 0
    /\ Len(content.domListeners) <= Len(EventTypesToRecord)
    /\ \A h \in {"getCurrentUrl", "getViewPortSize"} :
          LET OfHandler(l) == l.handler = h IN
          CountOf(content.runtimeListeners, OfHandler) =
              IF content.documentFlag THEN 1 ELSE 0
    /\ Len(content.runtimeListeners) <= 2
    /\ CountOf(content.messages, IsStartedMessage) = content.started
    /\ content.started + Len(content.pending) = content.starts

\* three start() invocations, on two recorders, have all run
C19_Witness ==
    /\ content.hasRuntime
    /\ Len(content.recorders) = 2
    /\ content.starts = 3
    /\ content.started = 3
    /\ content.windowFlag /\ content.documentFlag

====
